---- MODULE Spec2Model ----
(***************************************************************************)
(* Image-captioning backend: the Flask request handler of app.py and the   *)
(* lazily loaded model/processor singleton of model_loader.py.             *)
(*                                                                         *)
(* A worker thread handles one request at a time.  The process-global      *)
(* state is _model, _processor and _device; model objects live in a heap   *)
(* because .to(), .half() and .eval() change the object in place and       *)
(* return the same object.  Strings whose characters matter (filenames)    *)
(* are sequences of one-character strings.                                 *)
(***************************************************************************)
EXTENDS Naturals, Sequences, FiniteSets

VARIABLES thr, _model, _processor, _device, heap, nProc, cuda, nReq, returned

vars == <<thr, _model, _processor, _device, heap, nProc, cuda, nReq, returned>>

globals == <<_model, _processor, _device>>

(* ------------------------------ bounds -------------------------------- *)

NumThreads == 2

MaxRequests == 3

MaxNameLen == 4

Threads == 1..NumThreads

(* Characters filenames are built from: the separator, the letters of the  *)
(* extensions jpg and jpeg, and one upper-case letter.                     *)
Chars == {".", "j", "p", "e", "g", "G"}

Filenames == UNION {[1..n -> Chars] : n \in 0..MaxNameLen}

Modes == {"RGB", "RGBA", "L"}

(* The 'type' form field: missing, or one of these values.                 *)
FormTypes == {"absent", "default", "detailed", "Detailed", "fast"}

(* ------------------------------ app.py -------------------------------- *)

MAX_CONTENT_LENGTH == 16 * 1024 * 1024

ContentLengths == {1024, MAX_CONTENT_LENGTH, MAX_CONTENT_LENGTH + 1}

ALLOWED_EXTENSIONS ==
    {<<"p", "n", "g">>, <<"j", "p", "g">>, <<"j", "p", "e", "g">>,
     <<"g", "i", "f">>, <<"b", "m", "p">>, <<"w", "e", "b", "p">>}

(* str.lower() on the characters of the model's alphabet.                  *)
LowerChar(c) == IF c = "G" THEN "g" ELSE c

Lower(s) == [i \in 1..Len(s) |-> LowerChar(s[i])]

HasDot(s) == \E i \in 1..Len(s) : s[i] = "."

(* filename.rsplit('.', 1)[1]: the text after the last '.'.                *)
RSplitLast(s) ==
    LET last == CHOOSE i \in 1..Len(s) :
                    s[i] = "." /\ \A j \in (i + 1)..Len(s) : s[j] # "."
    IN  SubSeq(s, last + 1, Len(s))

(* Mutant: the extension is compared without lower-casing it.              *)
allowed_file_case_sensitive(filename) ==
    HasDot(filename) /\ RSplitLast(filename) \in ALLOWED_EXTENSIONS

allowed_file(filename) ==
    HasDot(filename) /\ Lower(RSplitLast(filename)) \in ALLOWED_EXTENSIONS

(* ------------------------- option values ------------------------------ *)

None == {}

Some(x) == {x}

The(s) == CHOOSE x \in s : TRUE

(* ------------------------- model objects ------------------------------ *)

(* What BlipForConditionalGeneration.from_pretrained returns: a model on   *)
(* the cpu, in full precision; from_pretrained leaves it in eval mode.     *)
RawModel == [device |-> "cpu", half |-> FALSE, eval |-> TRUE]

(* ------------------------- request records ---------------------------- *)

NoImage == [mode |-> "none", converted |-> FALSE]

NoRequest ==
    [pc |-> "idle", kind |-> "none", content_length |-> 0, hasImage |-> FALSE,
     filename |-> <<>>, bytesRead |-> FALSE, decode |-> "none", opened |-> "none",
     image |-> NoImage,
     form_type |-> "unread", caption_type |-> "none", calls |-> <<>>,
     passed |-> FALSE, loads |-> 0, m |-> None, device |-> None, ret |-> None,
     capReturned |-> FALSE, status |-> 0, error |-> "", hasCaption |-> FALSE]

(* return jsonify({'error': error}), status                                *)
ErrorResponse(r, status, error) ==
    [r EXCEPT !.pc = "idle", !.status = status, !.error = error]

(* ------------------------------ Init ---------------------------------- *)

Init ==
    /\ thr = [t \in Threads |-> NoRequest]
    /\ _model = None
    /\ _processor = None
    /\ _device = None
    /\ heap = <<>>
    /\ nProc = 0
    /\ cuda \in BOOLEAN
    /\ nReq = 0
    /\ returned = None

(* --------------------------- GET /health ------------------------------ *)

(* Mutant: the health check reports the device, and so selects it.         *)
health_check_device(t) ==
    /\ thr[t].pc = "idle"
    /\ nReq < MaxRequests
    /\ nReq' = nReq + 1
    /\ thr' = [thr EXCEPT ![t] = [NoRequest EXCEPT !.kind = "health", !.status = 200]]
    /\ _device' = (IF cuda THEN {"cuda"} ELSE {"cpu"})
    /\ UNCHANGED <<_model, _processor, heap, nProc, cuda, returned>>

health_check(t) ==
    /\ thr[t].pc = "idle"
    /\ nReq < MaxRequests
    /\ nReq' = nReq + 1
    /\ thr' = [thr EXCEPT ![t] = [NoRequest EXCEPT !.kind = "health", !.status = 200]]
    /\ UNCHANGED <<_model, _processor, _device, heap, nProc, cuda, returned>>

(* --------------------------- POST /upload ----------------------------- *)

(* A request arrives and is dispatched to upload_image.                    *)
ReceiveUpload(t) ==
    /\ thr[t].pc = "idle"
    /\ nReq < MaxRequests
    /\ nReq' = nReq + 1
    /\ \E cl \in ContentLengths :
         thr' = [thr EXCEPT ![t] = [NoRequest EXCEPT !.pc = "validate",
                                                     !.kind = "upload",
                                                     !.content_length = cl]]
    /\ UNCHANGED <<_model, _processor, _device, heap, nProc, cuda, returned>>

(* request.files parses the body on first access and raises                *)
(* RequestEntityTooLarge when the body exceeds MAX_CONTENT_LENGTH.         *)
RequestFilesRaises(content_length) == content_length > MAX_CONTENT_LENGTH

(* except Exception as e: ... 'An unexpected error occurred', 500          *)
OnUnexpected(r) == ErrorResponse(r, 500, "An unexpected error occurred")

(* Mutant: the status is left out of the return, so Flask answers 200.      *)
OnNoImage_default_status(r) == ErrorResponse(r, 200, "No image file provided")

OnNoImage(r) == ErrorResponse(r, 400, "No image file provided")

OnNoFilename(r) == ErrorResponse(r, 400, "No file selected")

OnBadExtension(r) == ErrorResponse(r, 400, "Invalid file type. Allowed types: ...")

(* Mutant: no inner try, so the outer handler answers a decode failure.    *)
OnDecodeError_outer(r) == ErrorResponse(r, 500, "An unexpected error occurred")

OnDecodeError(r) == ErrorResponse(r, 400, "Invalid or corrupted image file")

(* The locals of get_model and of the captioning function end with it.    *)
EndCall(r) ==
    [r EXCEPT !.passed = FALSE, !.loads = 0, !.m = None, !.device = None, !.ret = None]

OnCaptionError(r) ==
    ErrorResponse(r, 500, "Failed to generate caption. Please try again.")

(* The checks before the image is read.                                    *)
Validate(t, names) ==
    /\ thr[t].pc = "validate"
    /\ \E hasImage \in BOOLEAN, fn \in names :
         LET r == thr[t]
             withFile == [r EXCEPT !.hasImage = TRUE, !.filename = fn]
         IN  thr' = [thr EXCEPT ![t] =
                 IF RequestFilesRaises(r.content_length) THEN OnUnexpected(r)
                 ELSE IF ~hasImage THEN OnNoImage(r)
                 ELSE IF fn = <<>> THEN OnNoFilename(withFile)
                 ELSE IF ~allowed_file(fn) THEN OnBadExtension(withFile)
                 ELSE [withFile EXCEPT !.pc = "decode"]]
    /\ UNCHANGED <<_model, _processor, _device, heap, nProc, cuda, nReq, returned>>

(* Mutant: only images with an alpha channel are converted.                *)
NeedsConvert_alpha_only(mode) == mode = "RGBA"

NeedsConvert(mode) == mode # "RGB"

(* image.convert('RGB')                                                    *)
ConvertRGB(image) == [mode |-> "RGB", converted |-> TRUE]

(* file.read(), Image.open and the RGB conversion; any of them may raise.  *)
Decode(t) ==
    /\ thr[t].pc = "decode"
    /\ LET r == [thr[t] EXCEPT !.bytesRead = TRUE]
       IN  \/ thr' = [thr EXCEPT ![t] = OnDecodeError([r EXCEPT !.decode = "raised"])]
           \/ \E mode \in Modes :
                LET opened == [mode |-> mode, converted |-> FALSE]
                IN  \/ thr' = [thr EXCEPT ![t] =
                            [r EXCEPT !.pc = "dispatch", !.decode = "ok",
                                      !.opened = mode,
                                      !.image = IF NeedsConvert(opened.mode)
                                                THEN ConvertRGB(opened)
                                                ELSE opened]]
                    \/ /\ NeedsConvert(opened.mode)
                       /\ thr' = [thr EXCEPT ![t] =
                              OnDecodeError([r EXCEPT !.decode = "raised",
                                                      !.opened = mode,
                                                      !.image = opened])]
    /\ UNCHANGED <<_model, _processor, _device, heap, nProc, cuda, nReq, returned>>

(* request.form.get('type', 'default')                                     *)
FormGet(form_type) == IF form_type = "absent" THEN "default" ELSE form_type

(* Mutant: every type other than 'default' selects the detailed caption.   *)
CaptionFn_not_default(caption_type) ==
    IF caption_type # "default" THEN "generate_detailed_caption"
    ELSE "generate_caption"

CaptionFn(caption_type) ==
    IF caption_type = "detailed" THEN "generate_detailed_caption"
    ELSE "generate_caption"

(* The caption type is read and the captioning function is entered.        *)
Dispatch(t) ==
    /\ thr[t].pc = "dispatch"
    /\ \E ft \in FormTypes :
         LET r == thr[t]
             ct == FormGet(ft)
         IN  thr' = [thr EXCEPT ![t] =
                 [r EXCEPT !.pc = "gm_check", !.form_type = ft, !.caption_type = ct,
                           !.calls = Append(r.calls,
                                            [fn |-> CaptionFn(ct), image |-> r.image])]]
    /\ UNCHANGED <<_model, _processor, _device, heap, nProc, cuda, nReq, returned>>

(* --------------------------- get_device ------------------------------- *)

(* The value get_device() stores in _device and returns.                   *)
get_device == IF _device = None
              THEN (IF cuda THEN Some("cuda") ELSE Some("cpu"))
              ELSE _device

(* ---------------------------- get_model ------------------------------- *)

(* An exception in get_model is logged and re-raised by get_model and by   *)
(* the captioning function, and upload_image answers it.                   *)
Raise(t) == thr' = [thr EXCEPT ![t] = OnCaptionError(EndCall(thr[t]))]

(* Mutant: the cache is not consulted.                                     *)
NeedsLoad_always == TRUE

NeedsLoad == _model = None \/ _processor = None

(* if _model is None or _processor is None:                                *)
GmCheck(t) ==
    /\ thr[t].pc = "gm_check"
    /\ thr' = [thr EXCEPT ![t] = IF NeedsLoad
                                 THEN [thr[t] EXCEPT !.pc = "gm_proc", !.passed = TRUE]
                                 ELSE [thr[t] EXCEPT !.pc = "gm_ret"]]
    /\ UNCHANGED <<_model, _processor, _device, heap, nProc, cuda, nReq, returned>>

(* _processor = BlipProcessor.from_pretrained(model_name)                  *)
GmLoadProcessor(t) ==
    /\ thr[t].pc = "gm_proc"
    /\ \/ /\ _processor' = Some(nProc + 1)
          /\ nProc' = nProc + 1
          /\ thr' = [thr EXCEPT ![t].pc = "gm_model"]
       \/ /\ Raise(t)
          /\ UNCHANGED <<_processor, nProc>>
    /\ UNCHANGED <<_model, _device, heap, cuda, nReq, returned>>

(* _model = BlipForConditionalGeneration.from_pretrained(model_name)       *)
(* Mutant: the None check is repeated before the load (as under a lock),   *)
(* and a thread that finds the model loaded meanwhile does not load.       *)
LoadModel_recheck(t) ==
    IF _model = None
    THEN /\ heap' = Append(heap, RawModel)
         /\ _model' = {Len(heap) + 1}
         /\ thr' = [thr EXCEPT ![t].pc = "gm_dev", ![t].loads = thr[t].loads + 1]
    ELSE /\ thr' = [thr EXCEPT ![t].pc = "gm_dev"]
         /\ UNCHANGED <<_model, heap>>

LoadModel(t) ==
    /\ heap' = Append(heap, RawModel)
    /\ _model' = Some(Len(heap) + 1)
    /\ thr' = [thr EXCEPT ![t].pc = "gm_dev", ![t].loads = thr[t].loads + 1]

GmLoadModel(t) ==
    /\ thr[t].pc = "gm_model"
    /\ \/ LoadModel(t)
       \/ /\ Raise(t)
          /\ UNCHANGED <<_model, heap>>
    /\ UNCHANGED <<_processor, _device, nProc, cuda, nReq, returned>>

(* device = get_device()                                                   *)
GmGetDevice(t) ==
    /\ thr[t].pc = "gm_dev"
    /\ _device' = get_device
    /\ thr' = [thr EXCEPT ![t].pc = "gm_to", ![t].device = get_device]
    /\ UNCHANGED <<_model, _processor, heap, nProc, cuda, nReq, returned>>

(* _model.to(device): the global is read and the object moved in place.    *)
GmTo(t) ==
    /\ thr[t].pc = "gm_to"
    /\ \/ /\ heap' = [heap EXCEPT ![The(_model)].device = The(thr[t].device)]
          /\ thr' = [thr EXCEPT ![t].pc = "gm_to_store", ![t].m = _model]
       \/ /\ Raise(t)
          /\ UNCHANGED heap
    /\ UNCHANGED <<_model, _processor, _device, nProc, cuda, nReq, returned>>

(* _model = <the object .to() returned>                                    *)
GmToStore(t) ==
    /\ thr[t].pc = "gm_to_store"
    /\ _model' = thr[t].m
    /\ thr' = [thr EXCEPT ![t].pc = IF thr[t].device = Some("cuda")
                                    THEN "gm_half" ELSE "gm_eval"]
    /\ UNCHANGED <<_processor, _device, heap, nProc, cuda, nReq, returned>>

(* _model.half(), on cuda only                                             *)
GmHalf(t) ==
    /\ thr[t].pc = "gm_half"
    /\ \/ /\ heap' = [heap EXCEPT ![The(_model)].half = TRUE]
          /\ thr' = [thr EXCEPT ![t].pc = "gm_half_store", ![t].m = _model]
       \/ /\ Raise(t)
          /\ UNCHANGED heap
    /\ UNCHANGED <<_model, _processor, _device, nProc, cuda, nReq, returned>>

(* _model = <the object .half() returned>                                  *)
GmHalfStore(t) ==
    /\ thr[t].pc = "gm_half_store"
    /\ _model' = thr[t].m
    /\ thr' = [thr EXCEPT ![t].pc = "gm_eval"]
    /\ UNCHANGED <<_processor, _device, heap, nProc, cuda, nReq, returned>>

(* _model.eval()                                                           *)
GmEval(t) ==
    /\ thr[t].pc = "gm_eval"
    /\ heap' = [heap EXCEPT ![The(_model)].eval = TRUE]
    /\ thr' = [thr EXCEPT ![t].pc = "gm_ret"]
    /\ UNCHANGED <<_model, _processor, _device, nProc, cuda, nReq, returned>>

(* return _model, _processor                                               *)
GmReturn(t) ==
    /\ thr[t].pc = "gm_ret"
    /\ thr' = [thr EXCEPT ![t].pc = "cap_device",
                          ![t].ret = Some(<<_model, _processor>>)]
    /\ returned' = Some(<<_model, _processor>>)
    /\ UNCHANGED <<_model, _processor, _device, heap, nProc, cuda, nReq>>

(* ------------- generate_caption / generate_detailed_caption ----------- *)

(* device = get_device(), after get_model() has returned                   *)
CapGetDevice(t) ==
    /\ thr[t].pc = "cap_device"
    /\ _device' = get_device
    /\ thr' = [thr EXCEPT ![t].pc = "generate", ![t].device = get_device]
    /\ UNCHANGED <<_model, _processor, heap, nProc, cuda, nReq, returned>>

(* return jsonify({'success': True, 'caption': ..., 'filename': ...}), 200 *)
OnSuccess(r) ==
    [r EXCEPT !.pc = "idle", !.capReturned = TRUE, !.status = 200, !.hasCaption = TRUE]

(* Preprocessing, model.generate and decoding return a caption or raise.   *)
Generate(t) ==
    /\ thr[t].pc = "generate"
    /\ \/ thr' = [thr EXCEPT ![t] = OnSuccess(EndCall(thr[t]))]
       \/ Raise(t)
    /\ UNCHANGED <<_model, _processor, _device, heap, nProc, cuda, nReq, returned>>

(* --------------------------- specifications --------------------------- *)

Step(t, names) ==
    \/ health_check(t)
    \/ ReceiveUpload(t)
    \/ Validate(t, names)
    \/ Decode(t)
    \/ Dispatch(t)
    \/ GmCheck(t)
    \/ GmLoadProcessor(t)
    \/ GmLoadModel(t)
    \/ GmGetDevice(t)
    \/ GmTo(t)
    \/ GmToStore(t)
    \/ GmHalf(t)
    \/ GmHalfStore(t)
    \/ GmEval(t)
    \/ GmReturn(t)
    \/ CapGetDevice(t)
    \/ Generate(t)

(* Requests that do not overlap: one thread serves them one at a time.     *)
Next == Step(1, Filenames)

Spec == Init /\ [][Next]_vars

(* A thread of the threaded server receives an upload that passes the      *)
(* checks and the decoding, and enters the captioning function.            *)
UploadValid(t) ==
    /\ thr[t].pc = "idle"
    /\ nReq < MaxRequests
    /\ nReq' = nReq + 1
    /\ LET image == [mode |-> "RGB", converted |-> FALSE]
           ft == "absent"
       IN  thr' = [thr EXCEPT ![t] =
               [NoRequest EXCEPT !.pc = "gm_check", !.kind = "upload",
                                 !.content_length = 1024, !.hasImage = TRUE,
                                 !.filename = <<"e", ".", "j", "p", "g">>,
                                 !.bytesRead = TRUE, !.decode = "ok",
                                 !.opened = "RGB", !.image = image,
                                 !.form_type = ft, !.caption_type = FormGet(ft),
                                 !.calls = <<[fn |-> CaptionFn(FormGet(ft)),
                                              image |-> image]>>]]
    /\ UNCHANGED <<_model, _processor, _device, heap, nProc, cuda, returned>>

(* The threaded server: the calls of different requests interleave.        *)
NextThreaded ==
    \E t \in Threads :
        \/ UploadValid(t)
        \/ GmCheck(t)
        \/ GmLoadProcessor(t)
        \/ GmLoadModel(t)
        \/ GmGetDevice(t)
        \/ GmTo(t)
        \/ GmToStore(t)
        \/ GmHalf(t)
        \/ GmHalfStore(t)
        \/ GmEval(t)
        \/ GmReturn(t)
        \/ CapGetDevice(t)
        \/ Generate(t)

SpecThreaded == Init /\ [][NextThreaded]_vars

(* ------------------------------ claims -------------------------------- *)

(* An upload that has been answered.                                       *)
Answered(r) == r.kind = "upload" /\ r.pc = "idle"

(* The allow-list as the specification states it: the text after the last  *)
(* '.', lower-cased, is one of png, jpg, jpeg, gif, bmp, webp.             *)
ExtensionAllowed(fn) ==
    \E i \in 1..Len(fn) :
        /\ fn[i] = "."
        /\ \A j \in (i + 1)..Len(fn) : fn[j] # "."
        /\ \E ext \in {<<"p", "n", "g">>, <<"j", "p", "g">>, <<"j", "p", "e", "g">>,
                       <<"g", "i", "f">>, <<"b", "m", "p">>, <<"w", "e", "b", "p">>} :
             /\ Len(ext) = Len(fn) - i
             /\ \A k \in 1..Len(ext) : LowerChar(fn[i + k]) = ext[k]

(* The positions of a thread inside or after get_model's load section.     *)
PastLoad == {"gm_dev", "gm_to", "gm_to_store", "gm_half", "gm_half_store",
             "gm_eval", "gm_ret", "cap_device", "generate"}

(* C1: with requests that do not overlap, once get_model has returned a    *)
(* pair, every step leaves the pair that get_model returns the same and    *)
(* performs no from_pretrained load of a processor or of a model.          *)
C1_LoadedOnce ==
    [][returned # None =>
         /\ returned' = returned
         /\ Len(heap') = Len(heap)
         /\ nProc' = nProc]_vars

(* A second request whose get_model call found the pair cached.            *)
C1_Witness ==
    /\ nReq >= 2
    /\ thr[1].pc = "cap_device"
    /\ ~thr[1].passed
    /\ thr[1].ret = returned
    /\ Len(heap) = 1

(* C2: for an upload with an 'image' part, a non-empty filename and an     *)
(* allowed extension, a failure to read or decode is answered 400          *)
(* 'Invalid or corrupted image file' without any captioning call, and a    *)
(* captioning function that raises is answered 500 'Failed to generate     *)
(* caption. Please try again.'.                                            *)
C2_DecodeAndCaptionErrors ==
    \A t \in Threads :
        LET r == thr[t]
        IN  (Answered(r) /\ r.hasImage /\ r.filename # <<>>
                /\ ExtensionAllowed(r.filename)) =>
              /\ r.decode = "raised" =>
                    /\ r.status = 400
                    /\ r.error = "Invalid or corrupted image file"
                    /\ r.calls = <<>>
              /\ (r.decode = "ok" /\ ~r.capReturned) =>
                    /\ r.status = 500
                    /\ r.error = "Failed to generate caption. Please try again."

(* An upload whose RGB conversion raised has been answered.                *)
C2_Witness ==
    \E t \in Threads :
        /\ Answered(thr[t])
        /\ thr[t].decode = "raised"
        /\ thr[t].opened = "L"
        /\ thr[t].status = 400

(* C3: an upload with an 'image' part and a non-empty filename is rejected *)
(* with 400 'Invalid file type...' exactly when its extension is not       *)
(* allowed, and then its bytes are not read and no captioning function is  *)
(* called.                                                                 *)
C3_ExtensionAllowList ==
    \A t \in Threads :
        LET r == thr[t]
            rejected == /\ r.pc = "idle"
                        /\ r.status = 400
                        /\ r.error = "Invalid file type. Allowed types: ..."
                        /\ ~r.bytesRead
                        /\ r.calls = <<>>
        IN  (r.kind = "upload" /\ r.hasImage /\ r.filename # <<>>) =>
              (rejected <=> ~ExtensionAllowed(r.filename))

(* A filename with an upper-case, disallowed extension has been rejected.  *)
C3_Witness ==
    \E t \in Threads :
        /\ Answered(thr[t])
        /\ thr[t].filename = <<"j", ".", "p", "G">>
        /\ thr[t].status = 400

(* C4: an upload whose body exceeds MAX_CONTENT_LENGTH is answered 413     *)
(* 'File too large. Maximum size is 16MB', with no captioning call.        *)
C4_TooLargeIs413 ==
    \A t \in Threads :
        LET r == thr[t]
        IN  (Answered(r) /\ r.content_length > 16 * 1024 * 1024) =>
              /\ r.status = 413
              /\ r.error = "File too large. Maximum size is 16MB"
              /\ r.calls = <<>>

(* C5: nothing orders the None check of one call after the load of         *)
(* another: every call that passed the check loads a model itself,         *)
(* whatever the other threads have loaded meanwhile.                       *)
C5_EveryPasserLoads ==
    \A t \in Threads :
        (thr[t].passed /\ thr[t].pc \in PastLoad) => thr[t].loads = 1

(* The first two requests both passed the check and both loaded a model.   *)
C5_Witness ==
    \E t, u \in Threads :
        /\ t # u
        /\ nReq = 2
        /\ thr[t].passed /\ thr[t].pc \in PastLoad /\ thr[t].loads = 1
        /\ thr[u].passed /\ thr[u].pc \in PastLoad /\ thr[u].loads = 1
        /\ Len(heap) = 2
        /\ nProc = 2

(* C6: an upload is unanswered while it is handled; its answer is 200 with *)
(* a caption exactly when the 'image' part is present, the filename is     *)
(* non-empty and allowed, the image decoded and the captioning function    *)
(* returned; every other answer is 4xx/5xx with an error and no caption.   *)
C6_SuccessOrError ==
    \A t \in Threads :
        LET r == thr[t]
            good == /\ r.hasImage
                    /\ r.filename # <<>>
                    /\ ExtensionAllowed(r.filename)
                    /\ r.decode = "ok"
                    /\ r.capReturned
        IN  r.kind = "upload" =>
              /\ r.pc # "idle" => (r.status = 0 /\ r.error = "" /\ ~r.hasCaption)
              /\ r.pc = "idle" =>
                    /\ r.status = 200 <=> good
                    /\ r.status = 200 => (r.hasCaption /\ r.error = "")
                    /\ r.status # 200 =>
                          /\ r.status \in 400..599
                          /\ r.error # ""
                          /\ ~r.hasCaption

(* An upload has been answered 200.                                        *)
C6_Witness ==
    \E t \in Threads :
        /\ Answered(thr[t])
        /\ thr[t].status = 200
        /\ thr[t].filename = <<".", "j", "p", "G">>

(* C7: an upload that passed validation and decoding calls exactly one     *)
(* captioning function, once: generate_detailed_caption when the 'type'    *)
(* field is 'detailed', generate_caption for every other or missing value; *)
(* an upload that did not pass calls none.                                 *)
C7_CaptionDispatch ==
    \A t \in Threads :
        LET r == thr[t]
        IN  r.kind = "upload" =>
              IF r.decode = "ok" /\ r.pc # "dispatch"
              THEN /\ Len(r.calls) = 1
                   /\ r.calls[1].fn = "generate_detailed_caption"
                        <=> r.form_type = "detailed"
                   /\ r.calls[1].fn = "generate_caption"
                        <=> r.form_type # "detailed"
              ELSE r.calls = <<>>

(* An unrecognised type has been served by generate_caption.               *)
C7_Witness ==
    \E t \in Threads :
        /\ thr[t].form_type = "Detailed"
        /\ Len(thr[t].calls) = 1
        /\ thr[t].calls[1].fn = "generate_caption"

(* C8: every image passed to a captioning function has mode 'RGB', and it  *)
(* is a converted image exactly when the decoded mode was not 'RGB'.       *)
C8_ImageIsRGB ==
    \A t \in Threads :
        \A i \in 1..Len(thr[t].calls) :
            /\ thr[t].calls[i].image.mode = "RGB"
            /\ thr[t].calls[i].image.converted <=> thr[t].opened # "RGB"

(* A greyscale image has been passed on, converted.                        *)
C8_Witness ==
    \E t \in Threads :
        /\ thr[t].opened = "L"
        /\ Len(thr[t].calls) = 1
        /\ thr[t].calls[1].image.converted

(* C9: the model of every pair get_model returns is on the selected        *)
(* device, in half precision when that device is cuda, and in eval mode.   *)
C9_ReturnedModelInitialised ==
    \A t \in Threads :
        thr[t].ret # None =>
            LET m == heap[The(The(thr[t].ret)[1])]
            IN  /\ m.device = (IF cuda THEN "cuda" ELSE "cpu")
                /\ cuda => m.half
                /\ m.eval

(* C10: handling a health check, or an upload up to and including its      *)
(* decoding, changes none of _model, _processor and _device (nor loads     *)
(* anything); they change only in a step of an upload that has entered a   *)
(* captioning function.                                                    *)
C10_ValidationFrame ==
    [][/\ \A t \in Threads :
             (thr[t].pc \in {"idle", "validate", "decode", "dispatch"}
                 /\ thr'[t] # thr[t]) =>
               /\ globals' = globals
               /\ heap' = heap
               /\ nProc' = nProc
       /\ globals' # globals =>
             \E t \in Threads :
                 /\ thr[t].kind = "upload"
                 /\ Len(thr[t].calls) = 1
                 /\ thr'[t] # thr[t]]_vars

(* An undecodable upload has been rejected before any model was loaded,    *)
(* after an earlier health check.                                          *)
C10_Witness ==
    \E t \in Threads :
        /\ Answered(thr[t])
        /\ thr[t].decode = "raised"
        /\ nReq >= 2
        /\ _model = None /\ _processor = None /\ _device = None

====
